---- MODULE Spec2Model ----
(***************************************************************************)
(* Schedule versioning of pretalx: the working draft of an event is frozen *)
(* into a versioned schedule (schedule/actions.py, freeze_schedule) and an *)
(* old version is turned back into the working draft (schedule/models/     *)
(* schedule.py, Schedule.unfreeze).  The database is one record `db`; a    *)
(* transaction that raises leaves it as it was (transaction.atomic).       *)
(***************************************************************************)
EXTENDS Integers, Sequences, FiniteSets, TLC

\* ---------------------------------------------------------------- bounds
\* primary keys handed out to Schedule rows
MaxSchedules == 3
\* slots added to a working draft by the schedule editor
MaxEdits == 1
\* slots per released schedule in the comparisons
MaxTalks == 2
\* schedules ever created in the histories of releases and resets
MaxReleases == 5

\* ---------------------------------------------------------------- values
\* Python None for strings (version, room), timestamps and primary keys
None == "None"
NoTime == 0 - 1
NoId == 0 - 1
CachedNone == 0 - 2

Events == {"e1", "e2"}
\* the event whose schedule is edited and released
TheEvent == "e1"
\* the requests that are handled at the same time
Requests == {"r1", "r2"}
Submissions == {"sub1", "sub2"}
CONFIRMED == "confirmed"
ACCEPTED == "accepted"
DELETED == "deleted"
SubmissionStates == {ACCEPTED, CONFIRMED, DELETED}
\* the states the submissions are in while the schedule is worked on
InitialStates == {[sub1 |-> CONFIRMED, sub2 |-> ACCEPTED]}
\* where the editor puts a talk: nowhere yet, or in a room at a time
Placements == {[room |-> None, start |-> NoTime], [room |-> "room1", start |-> 10]}
\* the names a caller passes to freeze_schedule
Names == {"", "wip", "latest", "v1", "v2"}
\* the check for reserved names forgets 'latest'
ReservedNames_WipOnly == {"wip"}
ReservedNames == {"wip", "latest"}

\* Python truthiness of an optional string: None and '' are falsy
Truthy(s) == s \notin {None, ""}

VARIABLES
    db,          \* the stored rows: schedules, slots, log entries, pk counters
    pre,         \* the stored rows before the last operation
    wip_cache,   \* per event: the cached Event.wip_schedule (NoId: not cached)
    states,      \* Submission.state of every submission
    clock,       \* django.utils.timezone.now()
    edits,       \* slots added by the editor so far
    last,        \* the last operation, its arguments and how it ended
    requests,    \* per concurrent request: the Schedule object it holds, and
                 \* how far it is with its call of freeze_schedule
    report,      \* the last comparison of a schedule with its predecessor:
                 \* the change-set and the speakers to notify
    current_cache, \* per event: the cached Event.current_schedule (NoId: not
                 \* cached, CachedNone: cached, and there was no release)
    held         \* what the caches of the event held before the last freeze
                 \* or unfreeze, and which unfreeze made which draft

vars == <<db, pre, wip_cache, states, clock, edits, last, requests, report, current_cache, held>>

\* ------------------------------------------------------------ the tables
ScheduleIds(d) == DOMAIN d.schedules

\* schedule.talks: the slots of one schedule
talks(d, s) == {t \in d.slots : t.schedule = s}

\* event.schedules.filter(version__isnull=True)
Drafts(d, e) ==
    {s \in ScheduleIds(d) : d.schedules[s].event = e /\ d.schedules[s].version = None}

\* Schedule.objects.create(event=event): a row with no version and no
\* published date under the next primary key
Schedule_create(d, e) ==
    [d EXCEPT !.schedules = [s \in ScheduleIds(d) \cup {d.next_schedule} |->
                                IF s = d.next_schedule
                                THEN [event |-> e, version |-> None, published |-> NoTime]
                                ELSE d.schedules[s]],
              !.next_schedule = @ + 1]

\* the table has no unique constraint on (event, version)
UniqueViolation_Unchecked(d, s, name) == FALSE

\* unique_together = (('event', 'version'),): another row of the event
\* already carries the version (NULLs never collide)
UniqueViolation(d, s, name) ==
    \E o \in ScheduleIds(d) :
        /\ o # s
        /\ d.schedules[o].event = d.schedules[s].event
        /\ d.schedules[o].version = name

\* the save writes the version and not the published date
Schedule_save_VersionOnly(d, s, name, t) ==
    [d EXCEPT !.schedules[s].version = name]

\* schedule.save(update_fields=['published', 'version'])
Schedule_save(d, s, name, t) ==
    [d EXCEPT !.schedules[s].version = name, !.schedules[s].published = t]

\* schedule.log_action('pretalx.schedule.release', ...)
log_action(d, s, action) ==
    [d EXCEPT !.log = @ \cup {[action_type |-> action, object_id |-> s]}]

\* TalkSlot.copy_to_schedule(new_schedule, save=False): every field but
\* the primary key and the schedule
copy_to_schedule(t, new_schedule) ==
    [t EXCEPT !.id = NoId, !.schedule = new_schedule]

\* only the visible slots are copied
bulk_create_VisibleOnly(d, ts, new_schedule) ==
    LET vs == {t \in ts : t.is_visible}
        rank(t) == Cardinality({u \in vs : u.id < t.id})
    IN [d EXCEPT !.slots = @ \cup {[t EXCEPT !.id = d.next_slot + rank(t),
                                             !.schedule = new_schedule] : t \in vs},
                 !.next_slot = @ + Cardinality(vs)]

\* TalkSlot.objects.bulk_create(copies of ts): the copies get the next
\* primary keys, in the order of the primary keys of their sources
bulk_create(d, ts, new_schedule) ==
    LET rank(t) == Cardinality({u \in ts : u.id < t.id})
    IN [d EXCEPT !.slots = @ \cup {[copy_to_schedule(t, new_schedule)
                                       EXCEPT !.id = d.next_slot + rank(t)] : t \in ts},
                 !.next_slot = @ + Cardinality(ts)]

\* --------------------------------------------------------- transactions
\* the outcome of a function body: the rows as it left them, what it
\* raised ("ok": it returned) and the working draft it returned
Raise(d, exc) == [db |-> d, raised |-> exc, wip |-> NoId]
Return(d, w) == [db |-> d, raised |-> "ok", wip |-> w]

\* the function runs outside a transaction: what it wrote stays written
transaction_atomic_NoRollback(before, r) == r.db

\* @transaction.atomic: commit when the body returns, roll back when it raises
transaction_atomic(before, r) == IF r.raised = "ok" THEN r.db ELSE before

\* ------------------------------------------------------- freeze_schedule
\* the two visibility passes over the slots of the schedule
SetVisible(d, s) ==
    [d EXCEPT !.slots = {IF /\ t.schedule = s
                            /\ t.start # NoTime
                            /\ states[t.submission] = CONFIRMED
                            /\ t.is_visible = FALSE
                         THEN [t EXCEPT !.is_visible = TRUE]
                         ELSE t : t \in d.slots}]

\* the second visibility pass is missing
SetInvisible_Skipped(d, s) == d

SetInvisible(d, s) ==
    [d EXCEPT !.slots = {IF /\ t.schedule = s
                            /\ t.is_visible = TRUE
                            /\ ~(t.start # NoTime /\ states[t.submission] = CONFIRMED)
                         THEN [t EXCEPT !.is_visible = FALSE]
                         ELSE t : t \in d.slots}]

\* the Schedule object a caller gets when it loads row s
Instance(d, s) ==
    [pk |-> s, event |-> d.schedules[s].event, version |-> d.schedules[s].version]

\* if schedule.version: the object says it is a version already
AlreadyVersioned(schedule) == Truthy(schedule.version)

\* the cached property stays on the event
Uncache_Kept(cache, e) == cache

\* with suppress(AttributeError): del event.<cached property>
Uncache(cache, e) == [cache EXCEPT ![e] = NoId]

\* create_release_notifications: its first statement imports
\* get_speakers_with_changed_slots from pretalx.schedule.selectors, a
\* module that defines speakers_with_changed_slots and no function of
\* the imported name, so the call ends there
create_release_notifications(d, schedule, commit) == Raise(d, "ImportError")

\* the events with settings.export_html_on_schedule_release
ExportOnRelease == {"e1"}

\* the body of freeze_schedule; fault = k > 0 makes its k-th write to the
\* database raise, fault = 7 makes export_schedule_html.apply_async raise
freeze_schedule(d, schedule, name, t, notify_speakers, fault) ==
    LET s == schedule.pk IN
    IF name \in ReservedNames THEN Raise(d, "Exception")
    ELSE IF AlreadyVersioned(schedule) THEN Raise(d, "Exception")
    ELSE IF ~Truthy(name) THEN Raise(d, "Exception")
    ELSE IF UniqueViolation(d, s, name) THEN Raise(d, "IntegrityError")
    ELSE IF fault = 1 THEN Raise(d, "DatabaseError")
    ELSE LET d1 == Schedule_save(d, s, name, t) IN
    IF fault = 2 THEN Raise(d1, "DatabaseError")
    ELSE LET d2 == log_action(d1, s, "pretalx.schedule.release") IN
    IF fault = 3 THEN Raise(d2, "DatabaseError")
    ELSE LET wip == d2.next_schedule
             d3 == Schedule_create(d2, schedule.event) IN
    IF fault = 4 THEN Raise(d3, "DatabaseError")
    ELSE LET d4 == SetVisible(d3, s) IN
    IF fault = 5 THEN Raise(d4, "DatabaseError")
    ELSE LET d5 == SetInvisible(d4, s) IN
    IF fault = 6 THEN Raise(d5, "DatabaseError")
    ELSE LET d6 == bulk_create(d5, talks(d5, s), wip) IN
    IF notify_speakers THEN create_release_notifications(d6, schedule, TRUE)
    ELSE IF schedule.event \in ExportOnRelease /\ fault = 7
    THEN Raise(d6, "OperationalError")
    ELSE Return(d6, wip)

\* a write can raise only when the body gets to it
FreezeFaults(d, s, name, t, notify_speakers) ==
    IF freeze_schedule(d, Instance(d, s), name, t, notify_speakers, 0).raised # "ok" THEN {0}
    ELSE 0 .. 7

\* ------------------------------------------------------ Schedule.unfreeze
\* Event.wip_schedule, a cached property: the cached draft when there is
\* one, else schedules.get_or_create(version__isnull=True), which is then
\* cached on the event
wip_schedule(d, cache, e) ==
    IF cache[e] # NoId THEN [db |-> d, cache |-> cache, value |-> cache[e], raised |-> "ok"]
    ELSE IF Drafts(d, e) = {}
         THEN [db |-> Schedule_create(d, e),
               cache |-> [cache EXCEPT ![e] = d.next_schedule],
               value |-> d.next_schedule, raised |-> "ok"]
    ELSE IF Cardinality(Drafts(d, e)) = 1
         THEN LET w == CHOOSE w \in Drafts(d, e) : TRUE
              IN [db |-> d, cache |-> [cache EXCEPT ![e] = w], value |-> w, raised |-> "ok"]
    ELSE [db |-> d, cache |-> cache, value |-> NoId, raised |-> "MultipleObjectsReturned"]

\* the draft's slots are all kept, whatever their submission
UnfreezeTalks_AllOfDraft(d, s, w) == talks(d, w) \cup talks(d, s)

\* the slots unfreeze copies: those of the draft whose submission has no
\* slot in the version, and all those of the version
UnfreezeTalks(d, s, w) ==
    LET submission_ids == {t.submission : t \in talks(d, s)}
    IN {t \in talks(d, w) : t.submission \notin submission_ids} \cup talks(d, s)

\* the delete is not filtered by schedule
talks_delete_AllSchedules(d, w) == [d EXCEPT !.slots = {}]

\* the replaced draft is not deleted
Schedule_delete_Kept(d, w) == d

\* queryset.delete() on the slots of a schedule, and schedule.delete()
talks_delete(d, w) == [d EXCEPT !.slots = {t \in @ : t.schedule # w}]
Schedule_delete(d, w) ==
    [d EXCEPT !.schedules = [s \in ScheduleIds(d) \ {w} |-> d.schedules[s]]]

\* the working draft is accepted for unfreezing
NotReleased_Unchecked(d, s) == FALSE

\* if not self.version: the schedule to unfreeze is the working draft
NotReleased(d, s) == ~Truthy(d.schedules[s].version)

\* the body of Schedule.unfreeze, with the event's cache it leaves behind;
\* fault = k > 0 makes its k-th write to the database raise
unfreeze(d, cache, s, fault) ==
    LET e == d.schedules[s].event
        out(r, c) == [db |-> r.db, raised |-> r.raised, wip |-> r.wip, cache |-> c]
    IN
    IF NotReleased(d, s) THEN out(Raise(d, "Exception"), cache)
    ELSE LET g == wip_schedule(d, cache, e) IN
    IF g.raised # "ok" THEN out(Raise(g.db, g.raised), g.cache)
    ELSE LET w == g.value
             ts == UnfreezeTalks(g.db, s, w) IN
    IF fault = 1 THEN out(Raise(g.db, "DatabaseError"), g.cache)
    ELSE LET new == g.db.next_schedule
             d1 == Schedule_create(g.db, e) IN
    IF fault = 2 THEN out(Raise(d1, "DatabaseError"), g.cache)
    ELSE LET d2 == bulk_create(d1, ts, new) IN
    IF fault = 3 THEN out(Raise(d2, "DatabaseError"), g.cache)
    ELSE LET d3 == talks_delete(d2, w) IN
    IF fault = 4 THEN out(Raise(d3, "DatabaseError"), g.cache)
    ELSE LET d4 == Schedule_delete(d3, w) IN
    out(Return(d4, new), Uncache(g.cache, e))

UnfreezeFaults(d, cache, s) ==
    IF unfreeze(d, cache, s, 0).raised = "ok" THEN 0 .. 4 ELSE {0}

\* --------------------------------------------------------------- actions
FreezeStep(s, name, notify_speakers, fault, limit) ==
    /\ s \in ScheduleIds(db)
    /\ db.next_schedule <= limit
    /\ LET r == freeze_schedule(db, Instance(db, s), name, clock, notify_speakers, fault)
           e == db.schedules[s].event
       IN /\ db' = transaction_atomic(db, r)
          /\ pre' = db
          /\ wip_cache' = IF r.raised \in {"ok", "OperationalError"}
                          THEN Uncache(wip_cache, e) ELSE wip_cache
          /\ current_cache' = IF r.raised \in {"ok", "OperationalError"}
                              THEN Uncache(current_cache, e) ELSE current_cache
          /\ clock' = IF r.raised = "ok" THEN clock + 1 ELSE clock
          /\ last' = [op |-> "freeze", schedule |-> s, name |-> name,
                      raised |-> r.raised, wip |-> r.wip,
                      fault |-> IF r.raised \in {"DatabaseError", "OperationalError"}
                                THEN fault ELSE 0,
                      notify |-> notify_speakers /\ r.raised \in {"ok", "ImportError"}]
    /\ UNCHANGED <<states, edits, requests, report>>

Freeze(s, name, notify_speakers, fault) ==
    /\ FreezeStep(s, name, notify_speakers, fault, MaxSchedules)
    /\ UNCHANGED held

UnfreezeStep(s, fault, limit) ==
    /\ s \in ScheduleIds(db)
    /\ db.next_schedule <= limit
    /\ LET r == unfreeze(db, wip_cache, s, fault)
       IN /\ db' = transaction_atomic(db, r)
          /\ pre' = db
          /\ wip_cache' = r.cache
          /\ last' = [op |-> "unfreeze", schedule |-> s, name |-> None,
                      raised |-> r.raised, wip |-> r.wip,
                      fault |-> IF r.raised = "DatabaseError" THEN fault ELSE 0,
                      notify |-> FALSE]
    /\ UNCHANGED <<states, clock, edits, requests, report, current_cache>>

Unfreeze(s, fault) ==
    /\ UnfreezeStep(s, fault, MaxSchedules)
    /\ UNCHANGED held

\* a view reads request.event.wip_schedule
AccessWip(e) ==
    /\ wip_cache[e] = NoId
    /\ Drafts(db, e) = {} => db.next_schedule <= MaxSchedules
    /\ LET g == wip_schedule(db, wip_cache, e)
       IN /\ g.raised = "ok"
          /\ db' = g.db
          /\ pre' = db
          /\ wip_cache' = g.cache
          /\ last' = [op |-> "wip_schedule", schedule |-> g.value, name |-> None,
                      raised |-> "ok", wip |-> g.value, fault |-> 0, notify |-> FALSE]
    /\ UNCHANGED <<states, clock, edits, requests, report, current_cache, held>>

\* a slot as the schedule editor makes it
NewSlot(id, w, sub, place, visible) ==
    [id |-> id, schedule |-> w, submission |-> sub,
     room |-> place.room, start |-> place.start,
     end |-> IF place.start = NoTime THEN NoTime ELSE place.start + 1,
     is_visible |-> visible]

\* the working draft an event starts with: empty, or with the first talk
InitialDrafts ==
    {{}} \cup {{NewSlot(1, 1, "sub1", place, visible)} :
                   place \in Placements, visible \in BOOLEAN}

\* the schedule editor places a talk in the working draft of the event
AddSlot(e, sub, place, visible) ==
    /\ edits < MaxEdits
    /\ Drafts(db, e) # {}
    /\ LET w == CHOOSE w \in Drafts(db, e) : TRUE
           slot == NewSlot(db.next_slot, w, sub, place, visible)
       IN /\ db' = [db EXCEPT !.slots = @ \cup {slot}, !.next_slot = @ + 1]
          /\ pre' = db
          /\ last' = [op |-> "edit", schedule |-> w, name |-> None,
                      raised |-> "ok", wip |-> NoId, fault |-> 0, notify |-> FALSE]
    /\ edits' = edits + 1
    /\ UNCHANGED <<wip_cache, states, clock, requests, report, current_cache, held>>

\* nothing has been compared yet
NoReport == [schedule |-> NoId]

\* no freeze or unfreeze yet
NoHeld == [wip |-> NoId, current |-> NoId, draft |-> NoId, version |-> NoId]

Init ==
    /\ requests = [p \in Requests |-> [pc |-> "idle"]]
    /\ report = NoReport
    /\ current_cache = [e \in Events |-> NoId]
    /\ held = NoHeld
    /\ \E ts \in InitialDrafts :
           db = [schedules |-> (1 :> [event |-> TheEvent, version |-> None,
                                      published |-> NoTime]),
                 slots |-> ts,
                 log |-> {},
                 mails |-> {},
                 next_schedule |-> 2,
                 next_slot |-> Cardinality(ts) + 1]
    /\ pre = db
    /\ wip_cache = [e \in Events |-> NoId]
    /\ states \in InitialStates
    /\ clock = 1
    /\ edits = 0
    /\ last = [op |-> "init", schedule |-> NoId, name |-> None,
               raised |-> "ok", wip |-> NoId, fault |-> 0, notify |-> FALSE]

Next ==
    \/ \E s \in ScheduleIds(db), name \in Names, notify_speakers \in BOOLEAN :
           \E fault \in FreezeFaults(db, s, name, clock, notify_speakers) :
               Freeze(s, name, notify_speakers, fault)
    \/ \E s \in ScheduleIds(db) :
           \E fault \in UnfreezeFaults(db, wip_cache, s) : Unfreeze(s, fault)
    \/ AccessWip(TheEvent)
    \/ \E sub \in Submissions, place \in Placements, visible \in BOOLEAN :
           AddSlot(TheEvent, sub, place, visible)

Spec == Init /\ [][Next]_vars

\* ------------------------------------------------- concurrent requests
\* a request handler gets the working draft of the event as an object
Load(p, name) ==
    /\ requests[p].pc = "idle"
    /\ \E s \in Drafts(db, TheEvent) :
           requests' = [requests EXCEPT ![p] =
                           [pc |-> "loaded", schedule |-> Instance(db, s), name |-> name]]
    /\ UNCHANGED <<db, pre, wip_cache, states, clock, edits, last, report, current_cache, held>>

\* the handler calls freeze_schedule with the object it holds; the
\* transaction reads and writes the rows committed by then
Call(p) ==
    /\ requests[p].pc = "loaded"
    /\ db.next_schedule <= MaxSchedules
    /\ LET schedule == requests[p].schedule
           name == requests[p].name
           r == freeze_schedule(db, schedule, name, clock, FALSE, 0)
       IN /\ db' = transaction_atomic(db, r)
          /\ pre' = db
          /\ wip_cache' = IF r.raised = "ok" THEN Uncache(wip_cache, schedule.event)
                          ELSE wip_cache
          /\ current_cache' = IF r.raised = "ok"
                              THEN Uncache(current_cache, schedule.event)
                              ELSE current_cache
          /\ clock' = IF r.raised = "ok" THEN clock + 1 ELSE clock
          /\ last' = [op |-> "freeze", schedule |-> schedule.pk, name |-> name,
                      raised |-> r.raised, wip |-> r.wip, fault |-> 0, notify |-> FALSE]
          /\ requests' = [requests EXCEPT ![p] =
                              [pc |-> "done", schedule |-> schedule, name |-> name,
                               raised |-> r.raised, wip |-> r.wip]]
    /\ UNCHANGED <<states, edits, report, held>>

NextConcurrent ==
    \/ \E p \in Requests, name \in Names : Load(p, name)
    \/ \E p \in Requests : Call(p)
    \/ \E sub \in Submissions, place \in Placements, visible \in BOOLEAN :
           AddSlot(TheEvent, sub, place, visible)

SpecConcurrent == Init /\ [][NextConcurrent]_vars

\* ----------------------------------------------------------- selectors
\* the rows of a queryset in the order the database yields them: by
\* primary key
ByPk(ts) ==
    [i \in 1 .. Cardinality(ts) |->
        CHOOSE t \in ts : Cardinality({u \in ts : u.id < t.id}) = i - 1]

Range(q) == {q[i] : i \in 1 .. Len(q)}

\* the filter on is_visible is missing
scheduled_talks_WithInvisible(d, s) ==
    ByPk({t \in talks(d, s) :
             /\ t.room # None
             /\ t.start # NoTime
             /\ states[t.submission] # DELETED})

\* Schedule.scheduled_talks
scheduled_talks(d, s) ==
    ByPk({t \in talks(d, s) :
             /\ t.room # None
             /\ t.start # NoTime
             /\ t.is_visible = TRUE
             /\ states[t.submission] # DELETED})

\* the comparison of the published dates is missing, and the schedules
\* without a published date come first in the descending order
previous_schedule_NullsFirst(d, s) ==
    LET others == {o \in ScheduleIds(d) \ {s} :
                      d.schedules[o].event = d.schedules[s].event}
        nulls == {o \in others : d.schedules[o].published = NoTime}
    IN IF others = {} THEN NoId
       ELSE IF nulls # {} THEN CHOOSE o \in nulls : TRUE
       ELSE CHOOSE o \in others :
                \A x \in others : d.schedules[x].published <= d.schedules[o].published

\* the comparison of the published dates is missing
previous_schedule_Unfiltered(d, s) ==
    LET others == {o \in ScheduleIds(d) \ {s} :
                      d.schedules[o].event = d.schedules[s].event}
    IN IF others = {} THEN NoId
       ELSE CHOOSE o \in others :
                \A x \in others : d.schedules[x].published <= d.schedules[o].published

\* Schedule.previous_schedule: the other schedule of the event with the
\* latest published date, before this one's when this one has one; NoId
\* when there is none
previous_schedule(d, s) ==
    LET others == {o \in ScheduleIds(d) \ {s} :
                      d.schedules[o].event = d.schedules[s].event}
        queryset == IF d.schedules[s].published # NoTime
                    THEN {o \in others :
                             /\ d.schedules[o].published # NoTime
                             /\ d.schedules[o].published < d.schedules[s].published}
                    ELSE others
    IN IF queryset = {} THEN NoId
       ELSE CHOOSE o \in queryset :
                \A x \in queryset : d.schedules[x].published <= d.schedules[o].published

\* TalkSlot.is_same_slot: the same placement of the same talk
is_same_slot(a, b) ==
    a.submission = b.submission /\ a.room = b.room /\ a.start = b.start

\* datetime.astimezone(tz): the same instant, shown in the zone tz
astimezone(t, tz) == [instant |-> t, tz |-> tz]

\* room.name and room.speaker_info
RoomName(room) == IF room = "room1" THEN "Room 1" ELSE "Room 2"
SpeakerInfo(room) == IF room = "room1" THEN "" ELSE "upstairs"

\* the dictionary appended to moved for a pair of slots
MoveRecord(old_slot, new_slot, tz) ==
    [submission |-> new_slot.submission,
     old_start |-> astimezone(old_slot.start, tz),
     new_start |-> astimezone(new_slot.start, tz),
     old_room |-> RoomName(old_slot.room),
     new_room |-> RoomName(new_slot.room),
     new_info |-> SpeakerInfo(new_slot.room)]

\* the filter is missing
OfSubmission_All(slots, submission_pk) == slots

\* queryset.filter(submission__pk=submission_pk), as a list
OfSubmission(slots, submission_pk) ==
    SelectSeq(slots, LAMBDA t : t.submission = submission_pk)

\* nothing is taken out
Unmatched_All(slots, other_slots) == slots

\* the slots of a list without a same slot in the other list
Unmatched(slots, other_slots) ==
    SelectSeq(slots, LAMBDA t :
        ~\E i \in 1 .. Len(other_slots) : is_same_slot(t, other_slots[i]))

\* the surplus is taken from the end of the longer list
handle_submission_move_Last(submission_pk, old_slots, new_slots, tz) ==
    LET all_old_slots == OfSubmission(old_slots, submission_pk)
        all_new_slots == OfSubmission(new_slots, submission_pk)
        old0 == Unmatched(all_old_slots, all_new_slots)
        new0 == Unmatched(all_new_slots, all_old_slots)
        diff == Len(old0) - Len(new0)
        canceled == IF diff > 0 THEN SubSeq(old0, Len(old0) - diff + 1, Len(old0)) ELSE << >>
        old1 == IF diff > 0 THEN SubSeq(old0, 1, Len(old0) - diff) ELSE old0
        new == IF diff < 0 THEN SubSeq(new0, Len(new0) + diff + 1, Len(new0)) ELSE << >>
        new1 == IF diff < 0 THEN SubSeq(new0, 1, Len(new0) + diff) ELSE new0
        pairs == IF Len(old1) < Len(new1) THEN Len(old1) ELSE Len(new1)
        moved == [i \in 1 .. pairs |-> MoveRecord(old1[i], new1[i], tz)]
    IN [new |-> new, canceled |-> canceled, moved |-> moved]

\* nothing is paired: every old slot is canceled and every new slot is new
Classify_NoMoves(old_slots, new_slots, tz) ==
    [new |-> new_slots, canceled |-> old_slots, moved |-> << >>]

\* lines 38-57 of _handle_submission_move: the surplus at the head of the
\* longer list is canceled or new, the rest is zipped into moves
Classify(old_slots, new_slots, tz) ==
    LET diff == Len(old_slots) - Len(new_slots)
        skip_old == IF diff > 0 THEN diff ELSE 0
        skip_new == IF diff < 0 THEN 0 - diff ELSE 0
    IN [new |-> SubSeq(new_slots, 1, skip_new),
        canceled |-> SubSeq(old_slots, 1, skip_old),
        moved |-> [i \in 1 .. (Len(old_slots) - skip_old) |->
                      MoveRecord(old_slots[skip_old + i], new_slots[skip_new + i], tz)]]

\* _handle_submission_move
handle_submission_move(submission_pk, old_slots, new_slots, tz) ==
    Classify(Unmatched(OfSubmission(old_slots, submission_pk),
                       OfSubmission(new_slots, submission_pk)),
             Unmatched(OfSubmission(new_slots, submission_pk),
                       OfSubmission(old_slots, submission_pk)),
             tz)

\* the (submission, room, start) triples of a list of slots
SlotSet(slots) == {<<t.submission, t.room, t.start>> : t \in Range(slots)}

\* the submission is not remembered as handled
Extend_NotHandled(result, submission, new, canceled, moved) ==
    [result EXCEPT !.new_talks = @ \o new,
                   !.canceled_talks = @ \o canceled,
                   !.moved_talks = @ \o moved]

\* the canceled slots are not added to the result
Extend_DropCanceled(result, submission, new, canceled, moved) ==
    [result EXCEPT !.new_talks = @ \o new,
                   !.moved_talks = @ \o moved,
                   !.handled_submissions = @ \cup {submission}]

\* result[...] += ... for the three lists, and handled_submissions.add
Extend(result, submission, new, canceled, moved) ==
    [result EXCEPT !.new_talks = @ \o new,
                   !.canceled_talks = @ \o canceled,
                   !.moved_talks = @ \o moved,
                   !.handled_submissions = @ \cup {submission}]

\* the result of _handle_submission_move goes into the result
ExtendMoves(result, submission, m) ==
    [Extend(result, submission, m.new, m.canceled, m.moved)
        EXCEPT !.move_matched = @ \cup {submission}]

\* one of the two loops of compare_schedule_with_predecessor: entries is
\* the set it iterates, order the order in which the set yields the
\* submissions, theirs the slots on the side of the entries, other_submissions
\* the submissions of the other side, removed tells which side it is
RECURSIVE CompareLoop(_, _, _, _, _, _, _, _, _, _)
CompareLoop(result, entries, order, i, theirs, other_submissions, old_slots, new_slots, tz, removed) ==
    IF i > Len(order) THEN result
    ELSE CompareLoop(
             IF \A entry \in entries : entry[1] # order[i] THEN result
             ELSE IF order[i] \in result.handled_submissions THEN result
             ELSE IF order[i] \notin other_submissions
             THEN IF removed
                  THEN Extend(result, order[i], << >>,
                              OfSubmission(theirs, order[i]), << >>)
                  ELSE Extend(result, order[i],
                              OfSubmission(theirs, order[i]), << >>, << >>)
             ELSE ExtendMoves(result, order[i],
                              handle_submission_move(order[i], old_slots, new_slots, tz)),
             entries, order, i + 1, theirs, other_submissions,
             old_slots, new_slots, tz, removed)

\* schedule.tz
ScheduleTz(d, s) == IF d.schedules[s].event = "e1" THEN "Europe/Berlin" ELSE "UTC"

\* the result dictionary at the start; besides the keys of the code it
\* tells which submissions went through _handle_submission_move
InitialResult ==
    [count |-> 0, action |-> "update", new_talks |-> << >>,
     canceled_talks |-> << >>, moved_talks |-> << >>,
     handled_submissions |-> {}, move_matched |-> {}]

\* values_list('submission__id', flat=True), as a set
SubmissionsOf(slots) == {t.submission : t \in Range(slots)}

\* only the new talks are counted
WithCount_NewOnly(result) ==
    [result EXCEPT !.count = Len(result.new_talks)]

\* result['count'] = len(new_talks) + len(canceled_talks) + len(moved_talks)
WithCount(result) ==
    [result EXCEPT !.count = Len(result.new_talks) + Len(result.canceled_talks)
                             + Len(result.moved_talks)]

\* lines 78-116 of compare_schedule_with_predecessor: the loop over
\* moved_or_missing, then the loop over moved_or_new, then the count
CompareSlots(old_slots, new_slots, tz, order1, order2) ==
    WithCount(
        CompareLoop(
            CompareLoop(InitialResult, SlotSet(old_slots) \ SlotSet(new_slots),
                        order1, 1, old_slots, SubmissionsOf(new_slots),
                        old_slots, new_slots, tz, TRUE),
            SlotSet(new_slots) \ SlotSet(old_slots),
            order2, 1, new_slots, SubmissionsOf(old_slots),
            old_slots, new_slots, tz, FALSE))

\* compare_schedule_with_predecessor; order1 and order2 are the orders in
\* which the sets moved_or_missing and moved_or_new yield the submissions
compare_schedule_with_predecessor(d, s, order1, order2) ==
    IF previous_schedule(d, s) = NoId THEN [InitialResult EXCEPT !.action = "create"]
    ELSE CompareSlots(scheduled_talks(d, previous_schedule(d, s)),
                      scheduled_talks(d, s), ScheduleTz(d, s), order1, order2)

\* the persons of the instance, and submission.speakers
Users == {"alice", "bob", "carol"}
speakers_all(submission) ==
    IF submission = "sub1" THEN {"alice", "bob"} ELSE {"bob", "carol"}

\* the dictionary without keys; a loop over nothing, like the empty list
EmptyMapping == [p \in {} |-> [create |-> << >>, update |-> << >>]]

\* the slots of the scheduled talks only
SpeakerTalks_Scheduled(d, s, speaker) ==
    SelectSeq(scheduled_talks(d, s), LAMBDA t : speaker \in speakers_all(t.submission))

\* schedule.talks.filter(submission__speakers=speaker)
SpeakerTalks(d, s, speaker) ==
    ByPk({t \in talks(d, s) : speaker \in speakers_all(t.submission)})

\* only one of the speakers of the submission gets the entry
AppendFor_OneSpeaker(speakers, submission, field, talk) ==
    LET one == CHOOSE p \in speakers_all(submission) : TRUE
        entry == IF one \in DOMAIN speakers THEN speakers[one]
                 ELSE [create |-> << >>, update |-> << >>]
    IN [p \in DOMAIN speakers \cup {one} |->
           IF p = one THEN [entry EXCEPT ![field] = Append(@, talk)]
           ELSE speakers[p]]

\* for speaker in submission.speakers.all():
\*     speakers[speaker][field].append(talk)
\* on a defaultdict
AppendFor(speakers, submission, field, talk) ==
    LET entry(p) == IF p \in DOMAIN speakers THEN speakers[p]
                    ELSE [create |-> << >>, update |-> << >>]
    IN [p \in DOMAIN speakers \cup speakers_all(submission) |->
           IF p \in speakers_all(submission)
           THEN [entry(p) EXCEPT ![field] = Append(@, talk)]
           ELSE entry(p)]

\* one of the two loops over the lists of the change-set
RECURSIVE AppendTalks(_, _, _, _)
AppendTalks(speakers, list, i, field) ==
    IF i > Len(list) THEN speakers
    ELSE AppendTalks(AppendFor(speakers, list[i].submission, field, list[i]),
                     list, i + 1, field)

\* lines 8-15: everybody who speaks in the schedule, with all their slots
FirstRelease(d, s) ==
    [speaker \in {p \in Users : \E t \in talks(d, s) : p \in speakers_all(t.submission)} |->
        [create |-> SpeakerTalks(d, s, speaker), update |-> << >>]]

\* no early return, and the canceled talks are listed as updates
Notifications_NotifyCanceled(d, s, changes) ==
    IF changes.action = "create" THEN FirstRelease(d, s)
    ELSE AppendTalks(AppendTalks(AppendTalks(EmptyMapping, changes.new_talks, 1, "create"),
                                 changes.moved_talks, 1, "update"),
                     changes.canceled_talks, 1, "update")

\* lines 8-27 of speakers_with_changed_slots, for the change-set of line 7
Notifications(d, s, changes) ==
    IF changes.action = "create" THEN FirstRelease(d, s)
    ELSE IF changes.count = Len(changes.canceled_talks) THEN EmptyMapping
    ELSE AppendTalks(AppendTalks(EmptyMapping, changes.new_talks, 1, "create"),
                     changes.moved_talks, 1, "update")

\* speakers_with_changed_slots
speakers_with_changed_slots(d, s, order1, order2) ==
    Notifications(d, s, compare_schedule_with_predecessor(d, s, order1, order2))

\* ------------------------------------------------- comparing releases
\* the placements a slot of a released schedule is drawn from
Templates ==
    << [submission |-> "sub1", room |-> "room1", start |-> 10, is_visible |-> TRUE],
       [submission |-> "sub1", room |-> "room1", start |-> 10, is_visible |-> TRUE],
       [submission |-> "sub1", room |-> "room1", start |-> 11, is_visible |-> TRUE],
       [submission |-> "sub1", room |-> "room2", start |-> 10, is_visible |-> TRUE],
       [submission |-> "sub1", room |-> None, start |-> 10, is_visible |-> TRUE],
       [submission |-> "sub1", room |-> "room1", start |-> NoTime, is_visible |-> FALSE],
       [submission |-> "sub1", room |-> "room1", start |-> 10, is_visible |-> FALSE],
       [submission |-> "sub2", room |-> "room1", start |-> 10, is_visible |-> TRUE],
       [submission |-> "sub2", room |-> "room2", start |-> 11, is_visible |-> TRUE] >>

\* the slots of the working draft in the comparisons
DraftTemplates ==
    << [submission |-> "sub1", room |-> "room1", start |-> NoTime, is_visible |-> TRUE],
       [submission |-> "sub2", room |-> "room1", start |-> 10, is_visible |-> TRUE] >>

\* the states the submissions can have when releases are compared
DiffStates == {[sub1 |-> CONFIRMED, sub2 |-> CONFIRMED],
               [sub1 |-> CONFIRMED, sub2 |-> DELETED]}

\* the rows of schedule s made from the templates chosen, with primary
\* keys after offset, in the order of the templates or in the reverse
SlotRows(templates, chosen, s, offset, reversed) ==
    {[id |-> offset + 1 + Cardinality({j \in chosen : IF reversed THEN j > i ELSE j < i}),
      schedule |-> s,
      submission |-> templates[i].submission,
      room |-> templates[i].room,
      start |-> templates[i].start,
      end |-> IF templates[i].start = NoTime THEN NoTime ELSE templates[i].start + 1,
      is_visible |-> templates[i].is_visible] : i \in chosen}

Choices == {chosen \in SUBSET (1 .. Len(Templates)) : Cardinality(chosen) <= MaxTalks}

\* the orders in which a set can yield the submissions
Orders ==
    {order \in [1 .. Cardinality(Submissions) -> Submissions] :
        \A i, j \in 1 .. Cardinality(Submissions) : order[i] = order[j] => i = j}

\* an event with two releases and its working draft
InitDiff ==
    /\ requests = [p \in Requests |-> [pc |-> "idle"]]
    /\ report = NoReport
    /\ current_cache = [e \in Events |-> NoId]
    /\ held = NoHeld
    /\ \E old \in Choices, new \in Choices, reversed \in BOOLEAN :
           db = [schedules |-> (1 :> [event |-> TheEvent, version |-> "v1", published |-> 1])
                               @@ (2 :> [event |-> TheEvent, version |-> "v2", published |-> 2])
                               @@ (3 :> [event |-> TheEvent, version |-> None, published |-> NoTime]),
                 slots |-> SlotRows(Templates, old, 1, 0, reversed)
                           \cup SlotRows(Templates, new, 2, Cardinality(old), reversed)
                           \cup SlotRows(DraftTemplates, 1 .. Len(DraftTemplates), 3,
                                         Cardinality(old) + Cardinality(new), reversed),
                 log |-> {},
                 mails |-> {},
                 next_schedule |-> 4,
                 next_slot |-> Cardinality(old) + Cardinality(new) + Len(DraftTemplates) + 1]
    /\ pre = db
    /\ wip_cache = [e \in Events |-> NoId]
    /\ states \in DiffStates
    /\ clock = 3
    /\ edits = 0
    /\ last = [op |-> "init", schedule |-> NoId, name |-> None,
               raised |-> "ok", wip |-> NoId, fault |-> 0, notify |-> FALSE]

\* a schedule is compared with its predecessor, and the speakers to notify
\* are worked out; the comparison reads the database only, so one
\* comparison per database is all there is to see
Compare(s, order1, order2) ==
    /\ report = NoReport
    /\ s \in ScheduleIds(db)
    /\ report' = [schedule |-> s, order1 |-> order1, order2 |-> order2,
                  changes |-> compare_schedule_with_predecessor(db, s, order1, order2),
                  speakers |-> speakers_with_changed_slots(db, s, order1, order2)]
    /\ UNCHANGED <<db, pre, wip_cache, states, clock, edits, last, requests, current_cache, held>>

NextDiff ==
    \E s \in 1 .. 3, order1 \in Orders, order2 \in Orders : Compare(s, order1, order2)

SpecDiff == InitDiff /\ [][NextDiff]_vars

\* ------------------------------------------------------------ properties
Succeeded(op) == last.op = op /\ last.raised = "ok"

\* what a copy keeps of a slot
Content(t) == <<t.submission, t.room, t.start, t.end, t.is_visible>>

\* as many slots of as as of bs carry each content
SameContents(as, bs) ==
    \A t \in as \cup bs :
        Cardinality({u \in as : Content(u) = Content(t)})
            = Cardinality({u \in bs : Content(u) = Content(t)})

SlotIds(ts) == {t.id : t \in ts}

\* C1: after any sequence of completed freeze and unfreeze operations, at
\* most one schedule of an event has version = null.
C1_AtMostOneDraft ==
    \A e \in Events :
        Cardinality({s \in DOMAIN db.schedules :
                        db.schedules[s].event = e /\ db.schedules[s].version = None}) <= 1

\* a version has been unfrozen, and the event has versions and one draft
C1_Witness ==
    /\ Succeeded("unfreeze")
    /\ \E s \in DOMAIN db.schedules : db.schedules[s].version # None
    /\ \E s \in DOMAIN db.schedules : db.schedules[s].version = None

\* C2: freeze with an empty name, with the name 'wip' or 'latest', or on a
\* schedule that has a version already fails, and no schedule, no slot and
\* no is_visible flag is changed by it.
C2_RejectedFreezeChangesNothing ==
    (/\ last.op = "freeze"
     /\ \/ last.name \in {"", "wip", "latest"}
        \/ pre.schedules[last.schedule].version # None)
    => /\ last.raised = "Exception"
       /\ db.schedules = pre.schedules
       /\ db.slots = pre.slots

\* a freeze of a draft with slots under the name 'latest' has been rejected
C2_Witness ==
    /\ last.op = "freeze"
    /\ last.name = "latest"
    /\ last.raised = "Exception"
    /\ pre.schedules[last.schedule].version = None
    /\ talks(pre, last.schedule) # {}

\* C3: unfreeze of the working draft (version unset) fails, and no schedule
\* or slot is created, deleted or changed.
C3_UnfreezeOfDraftRejected ==
    (last.op = "unfreeze" /\ pre.schedules[last.schedule].version = None)
    => /\ last.raised = "Exception"
       /\ db.schedules = pre.schedules
       /\ db.slots = pre.slots

\* an unfreeze of a draft with slots has been rejected while a version exists
C3_Witness ==
    /\ last.op = "unfreeze"
    /\ last.raised = "Exception"
    /\ talks(pre, last.schedule) # {}
    /\ \E s \in DOMAIN pre.schedules : pre.schedules[s].version # None

\* C4: a successful freeze(schedule, name) sets version = name together
\* with published; a schedule that has them keeps both through every later
\* operation; version is null iff published is null.
C4_VersionAndPublishedSetOnce ==
    /\ \A s \in DOMAIN db.schedules :
           (db.schedules[s].version = None) <=> (db.schedules[s].published = NoTime)
    /\ Succeeded("freeze") =>
           /\ pre.schedules[last.schedule].version = None
           /\ db.schedules[last.schedule].version = last.name
           /\ db.schedules[last.schedule].published # NoTime
    /\ \A s \in DOMAIN pre.schedules :
           pre.schedules[s].version # None =>
               /\ s \in DOMAIN db.schedules
               /\ db.schedules[s].version = pre.schedules[s].version
               /\ db.schedules[s].published = pre.schedules[s].published

\* a second version has been released while the first one existed
C4_Witness ==
    /\ Succeeded("freeze")
    /\ \E s \in DOMAIN pre.schedules : pre.schedules[s].version # None

\* C5: no two schedules of an event carry the same non-null version; a
\* freeze under a name another schedule of the event carries fails and the
\* draft stays unversioned and unpublished.
C5_VersionsUnique ==
    /\ \A s1, s2 \in DOMAIN db.schedules :
           (/\ s1 # s2
            /\ db.schedules[s1].event = db.schedules[s2].event
            /\ db.schedules[s1].version # None)
           => db.schedules[s1].version # db.schedules[s2].version
    /\ (/\ last.op = "freeze"
        /\ pre.schedules[last.schedule].version = None
        /\ \E o \in DOMAIN pre.schedules :
               /\ o # last.schedule
               /\ pre.schedules[o].event = pre.schedules[last.schedule].event
               /\ pre.schedules[o].version = last.name)
       => /\ last.raised # "ok"
          /\ db.schedules[last.schedule].version = None
          /\ db.schedules[last.schedule].published = NoTime

\* the draft was to be released under the name of an existing version
C5_Witness ==
    /\ last.op = "freeze"
    /\ last.raised = "IntegrityError"
    /\ last.name = "v1"
    /\ \E o \in DOMAIN db.schedules : db.schedules[o].version = "v1"

\* C6: freeze and unfreeze are all-or-nothing: when a step after the
\* precondition checks fails, the stored schedules and slots (and the log)
\* are those from before the call.
C6_AllOrNothing ==
    (/\ last.op \in {"freeze", "unfreeze"}
     /\ last.raised \in {"DatabaseError", "IntegrityError"})
    => /\ db.schedules = pre.schedules
       /\ db.slots = pre.slots
       /\ db.log = pre.log

\* the slot copy of a freeze failed after the visibility update had
\* changed a slot of the draft
C6_Witness ==
    /\ last.op = "freeze"
    /\ last.raised = "DatabaseError"
    /\ last.fault = 6
    /\ \E t \in talks(pre, last.schedule) :
           t.is_visible # (t.start # NoTime /\ states[t.submission] = CONFIRMED)

\* C7: after a successful freeze every slot of the frozen schedule is
\* visible iff it has a start and its submission is CONFIRMED, whatever
\* is_visible was before.
C7_VisibilityExact ==
    Succeeded("freeze") =>
        \A t \in talks(db, last.schedule) :
            t.is_visible <=> (t.start # NoTime /\ states[t.submission] = CONFIRMED)

\* the freeze made one slot visible and another one invisible
C7_Witness ==
    /\ Succeeded("freeze")
    /\ \E t \in talks(db, last.schedule), u \in talks(pre, last.schedule) :
           t.id = u.id /\ ~u.is_visible /\ t.is_visible
    /\ \E t \in talks(db, last.schedule), u \in talks(pre, last.schedule) :
           t.id = u.id /\ u.is_visible /\ ~t.is_visible

\* C8: after a successful freeze the returned draft is a new schedule of the
\* same event without a version; it holds one fresh slot per slot of the
\* frozen schedule, with the same submission, room, start, end and
\* (recomputed) is_visible, and nothing else; the frozen schedule keeps its
\* own slots.
C8_NewDraftCopiesFrozen ==
    Succeeded("freeze") =>
        /\ last.wip \in DOMAIN db.schedules
        /\ last.wip \notin DOMAIN pre.schedules
        /\ db.schedules[last.wip].event = pre.schedules[last.schedule].event
        /\ db.schedules[last.wip].version = None
        /\ SameContents(talks(db, last.wip), talks(db, last.schedule))
        /\ SlotIds(talks(db, last.wip)) \cap SlotIds(pre.slots) = {}
        /\ Cardinality(SlotIds(talks(db, last.wip))) = Cardinality(talks(db, last.wip))
        /\ SlotIds(talks(db, last.schedule)) = SlotIds(talks(pre, last.schedule))
        /\ \A t \in talks(db, last.schedule) :
               \E u \in talks(pre, last.schedule) : [u EXCEPT !.is_visible = t.is_visible] = t

\* a draft with two slots, one of them with a changed visibility, was frozen
C8_Witness ==
    /\ Succeeded("freeze")
    /\ Cardinality(talks(db, last.wip)) = 2
    /\ \E t \in talks(db, last.wip) : t.start # NoTime /\ t.is_visible
    /\ \E t \in talks(pre, last.schedule) : t.start = NoTime /\ t.is_visible

\* C9: after a successful unfreeze of version S the new draft holds a copy
\* of every slot of S and of every slot of the replaced draft whose
\* submission has no slot in S, and nothing else; the replaced draft and
\* its slots are gone.
C9_UnfreezeRestores ==
    Succeeded("unfreeze") =>
        LET S == last.schedule
            replaced == {w \in DOMAIN pre.schedules :
                            /\ pre.schedules[w].event = pre.schedules[S].event
                            /\ pre.schedules[w].version = None}
            in_S == {t.submission : t \in talks(pre, S)}
            kept == {t \in pre.slots : t.schedule \in replaced /\ t.submission \notin in_S}
        IN /\ last.wip \in DOMAIN db.schedules
           /\ last.wip \notin DOMAIN pre.schedules
           /\ db.schedules[last.wip].version = None
           /\ db.schedules[last.wip].event = pre.schedules[S].event
           /\ SameContents(talks(db, last.wip), talks(pre, S) \cup kept)
           /\ Cardinality(talks(db, last.wip)) = Cardinality(talks(pre, S) \cup kept)
           /\ SlotIds(talks(db, last.wip)) \cap SlotIds(pre.slots) = {}
           /\ replaced \cap DOMAIN db.schedules = {}
           /\ \A t \in db.slots : t.schedule \notin replaced
           /\ \A t \in pre.slots : t.schedule \in replaced => t.id \notin SlotIds(db.slots)

\* the unfrozen version had a slot, and the replaced draft had a slot of
\* the same submission (dropped) and one of another submission (kept)
C9_Witness ==
    /\ Succeeded("unfreeze")
    /\ talks(pre, last.schedule) # {}
    /\ \E w \in DOMAIN pre.schedules :
           /\ pre.schedules[w].version = None
           /\ \E t \in talks(pre, w) : \E u \in talks(pre, last.schedule) :
                  t.submission = u.submission
           /\ \E t \in talks(pre, w) : \A u \in talks(pre, last.schedule) :
                  t.submission # u.submission
    /\ Cardinality(talks(db, last.wip)) = 2

\* C10: the slots of a versioned schedule, with their submission, room,
\* start, end and is_visible, are the same after every later freeze and
\* unfreeze.
C10_VersionedSlotsFrozen ==
    last.op \in {"freeze", "unfreeze"} =>
        \A s \in DOMAIN pre.schedules :
            pre.schedules[s].version # None =>
                {t \in db.slots : t.schedule = s} = {t \in pre.slots : t.schedule = s}

\* a version with slots was unfrozen
C10_Witness ==
    /\ Succeeded("unfreeze")
    /\ {t \in pre.slots : t.schedule = last.schedule} # {}
    /\ last.wip \in DOMAIN db.schedules

\* C11: two freeze calls on the same working draft end as one of their
\* serial orders does: the event never has two schedules with version =
\* null, and at most one of the two calls returns a released schedule.
C11_ConcurrentFreezesSerial ==
    /\ Cardinality({s \in DOMAIN db.schedules :
                       db.schedules[s].event = "e1" /\ db.schedules[s].version = None}) <= 1
    /\ ~(/\ requests["r1"].pc = "done" /\ requests["r2"].pc = "done"
         /\ requests["r1"].schedule.pk = requests["r2"].schedule.pk
         /\ requests["r1"].raised = "ok" /\ requests["r2"].raised = "ok")

\* ------------------------------------- histories of releases and resets
\* the released schedule of the event with the latest published date,
\* CachedNone when nothing is released
LatestRelease(d, e) ==
    LET released == {o \in ScheduleIds(d) :
                        d.schedules[o].event = e /\ d.schedules[o].published # NoTime}
    IN IF released = {} THEN CachedNone
       ELSE CHOOSE o \in released :
                \A x \in released : d.schedules[x].published <= d.schedules[o].published

\* Event.current_schedule, a cached property: the cached value when there
\* is one, else the latest release, which is then cached on the event
current_schedule(d, cache, e) ==
    IF cache[e] # NoId THEN [cache |-> cache, value |-> cache[e]]
    ELSE [cache |-> [cache EXCEPT ![e] = LatestRelease(d, e)],
          value |-> LatestRelease(d, e)]

\* a view reads request.event.current_schedule
AccessCurrent(e) ==
    /\ current_cache[e] = NoId
    /\ current_cache' = current_schedule(db, current_cache, e).cache
    /\ pre' = db
    /\ last' = [op |-> "current_schedule",
                schedule |-> current_schedule(db, current_cache, e).value,
                name |-> None, raised |-> "ok", wip |-> NoId, fault |-> 0,
                notify |-> FALSE]
    /\ UNCHANGED <<db, wip_cache, states, clock, edits, requests, report, held>>

\* the names of the releases in the histories
HistoryNames == {"v1", "v2", "v3"}

\* the working draft is released, without notifications
Release(s, name) ==
    /\ FreezeStep(s, name, FALSE, 0, MaxReleases)
    /\ held' = [held EXCEPT !.wip = wip_cache[db.schedules[s].event],
                            !.current = current_cache[db.schedules[s].event]]

\* the working draft is reset to a release
Reset(s) ==
    /\ UnfreezeStep(s, 0, MaxReleases)
    /\ held' = IF unfreeze(db, wip_cache, s, 0).raised = "ok"
               THEN [wip |-> wip_cache[db.schedules[s].event],
                     current |-> current_cache[db.schedules[s].event],
                     draft |-> unfreeze(db, wip_cache, s, 0).wip,
                     version |-> s]
               ELSE [held EXCEPT !.wip = wip_cache[db.schedules[s].event],
                                 !.current = current_cache[db.schedules[s].event]]

NextHistory ==
    \/ \E s \in ScheduleIds(db), name \in HistoryNames : Release(s, name)
    \/ \E s \in ScheduleIds(db) : Reset(s)
    \/ AccessWip(TheEvent)
    \/ AccessCurrent(TheEvent)

SpecHistory == Init /\ [][NextHistory]_vars

\* ---------------------------------------------- properties of SpecDiff
Compared == report.schedule # 0 - 1

\* the schedules of the same event released before the one compared; for
\* the working draft these are all the released ones
ReleasedBefore ==
    {o \in DOMAIN db.schedules \ {report.schedule} :
        /\ db.schedules[o].event = db.schedules[report.schedule].event
        /\ db.schedules[o].published # 0 - 1
        /\ \/ db.schedules[report.schedule].published = 0 - 1
           \/ db.schedules[o].published < db.schedules[report.schedule].published}

\* C12: comparing a schedule that has no predecessor (no other schedule of
\* the event was published before it) gives action = 'create' with no new,
\* canceled or moved talks.
C12_NoPredecessorIsCreate ==
    (Compared /\ ReleasedBefore = {}) =>
        /\ report.changes.action = "create"
        /\ report.changes.count = 0
        /\ report.changes.new_talks = << >>
        /\ report.changes.canceled_talks = << >>
        /\ report.changes.moved_talks = << >>

\* the first release is compared, while a later release and the working
\* draft exist and have scheduled talks
C12_Witness ==
    /\ Compared
    /\ report.schedule = 1
    /\ ReleasedBefore = {}
    /\ \E t \in db.slots : t.schedule = 1 /\ t.is_visible /\ t.room # None
    /\ \E t \in db.slots : t.schedule = 2 /\ t.is_visible /\ t.room # None
    /\ report.changes.action = "create"

\* the release the compared schedule is compared with
Predecessor ==
    CHOOSE o \in ReleasedBefore :
        \A x \in ReleasedBefore : db.schedules[x].published <= db.schedules[o].published

Updated == Compared /\ ReleasedBefore # {}

IsScheduled(t) ==
    /\ t.room # "None"
    /\ t.start # 0 - 1
    /\ t.is_visible = TRUE
    /\ states[t.submission] # "deleted"

OldScheduled == {t \in db.slots : t.schedule = Predecessor /\ IsScheduled(t)}
NewScheduled == {t \in db.slots : t.schedule = report.schedule /\ IsScheduled(t)}

SamePlacement(t, u) ==
    t.submission = u.submission /\ t.room = u.room /\ t.start = u.start

InList(t, list) == \E i \in 1 .. Len(list) : list[i] = t

\* t is the old side, or the new side, of a move record
OldSideOfMove(t) ==
    \E i \in 1 .. Len(report.changes.moved_talks) :
        LET m == report.changes.moved_talks[i]
        IN /\ m.submission = t.submission
           /\ m.old_room = RoomName(t.room)
           /\ m.old_start.instant = t.start
NewSideOfMove(t) ==
    \E i \in 1 .. Len(report.changes.moved_talks) :
        LET m == report.changes.moved_talks[i]
        IN /\ m.submission = t.submission
           /\ m.new_room = RoomName(t.room)
           /\ m.new_start.instant = t.start

\* C13: a scheduled slot whose (submission, room, start) also occurs among
\* the scheduled slots of the other version is in none of new_talks,
\* canceled_talks and moved_talks, neither as old nor as new side of a move.
C13_MatchedSlotsNotListed ==
    Updated =>
        /\ \A t \in OldScheduled :
               (\E u \in NewScheduled : SamePlacement(t, u)) =>
                   /\ ~InList(t, report.changes.new_talks)
                   /\ ~InList(t, report.changes.canceled_talks)
                   /\ ~OldSideOfMove(t)
        /\ \A u \in NewScheduled :
               (\E t \in OldScheduled : SamePlacement(t, u)) =>
                   /\ ~InList(u, report.changes.new_talks)
                   /\ ~InList(u, report.changes.canceled_talks)
                   /\ ~NewSideOfMove(u)

\* a submission keeps one placement and loses or changes another, so it
\* goes through the matching of moves with a slot that is in both versions
C13_Witness ==
    /\ Updated
    /\ \E t \in OldScheduled, u \in NewScheduled :
           /\ SamePlacement(t, u)
           /\ t.submission \in report.changes.move_matched
    /\ report.changes.count > 0

\* the old and the new scheduled slots of a submission without a slot of
\* the same placement in the other version
UnmatchedOld(sub) ==
    {t \in OldScheduled :
        t.submission = sub /\ ~\E u \in NewScheduled : SamePlacement(t, u)}
UnmatchedNew(sub) ==
    {u \in NewScheduled :
        u.submission = sub /\ ~\E t \in OldScheduled : SamePlacement(t, u)}

\* how many entries of a list belong to a submission
CountOf(list, sub) ==
    Cardinality({i \in 1 .. Len(list) : list[i].submission = sub})

\* C14: for every submission processed by move-matching, the number of its
\* old slots without a structural match is canceled + moved for that
\* submission, and the number of its new slots without one is new + moved.
C14_Conservation ==
    Updated =>
        \A sub \in report.changes.move_matched :
            /\ Cardinality(UnmatchedOld(sub)) =
                   CountOf(report.changes.canceled_talks, sub)
                   + CountOf(report.changes.moved_talks, sub)
            /\ Cardinality(UnmatchedNew(sub)) =
                   CountOf(report.changes.new_talks, sub)
                   + CountOf(report.changes.moved_talks, sub)

\* a submission loses one placement and moves another, while the other
\* submission is new in the schedule
C14_Witness ==
    /\ Updated
    /\ \E sub \in report.changes.move_matched :
           /\ CountOf(report.changes.canceled_talks, sub) > 0
           /\ CountOf(report.changes.moved_talks, sub) > 0
    /\ \E u \in NewScheduled : u.submission = "sub2"

\* all slots of the compared schedule on which a person speaks
SlotsOfSpeaker(p) ==
    {t \in db.slots : t.schedule = report.schedule /\ p \in speakers_all(t.submission)}

\* C15: on a first release (action 'create') the notification mapping has
\* exactly the persons who speak on a submission with a slot in the
\* schedule, each with create = all slots of the schedule for their
\* submissions and update = empty.
C15_FirstReleaseNotifiesAll ==
    (Compared /\ report.changes.action = "create") =>
        /\ DOMAIN report.speakers =
               {p \in {"alice", "bob", "carol"} : SlotsOfSpeaker(p) # {}}
        /\ \A p \in DOMAIN report.speakers :
               /\ {report.speakers[p].create[i] :
                      i \in 1 .. Len(report.speakers[p].create)} = SlotsOfSpeaker(p)
               /\ Len(report.speakers[p].create) = Cardinality(SlotsOfSpeaker(p))
               /\ report.speakers[p].update = << >>

\* the first release has a scheduled talk and a slot that is not scheduled,
\* and somebody is notified
C15_Witness ==
    /\ Compared
    /\ report.changes.action = "create"
    /\ \E t, u \in db.slots :
           /\ t.schedule = report.schedule /\ IsScheduled(t)
           /\ u.schedule = report.schedule /\ ~IsScheduled(u)
    /\ "alice" \in DOMAIN report.speakers
    /\ "carol" \notin DOMAIN report.speakers

\* C16: for an 'update' change-set whose canceled talks are all its changes
\* (no new and no moved talks, or no change at all) the notification
\* mapping is empty: nobody is notified.
C16_CancellationsNotifyNobody ==
    (Updated /\ report.changes.action = "update"
             /\ report.changes.count = Len(report.changes.canceled_talks)) =>
        DOMAIN report.speakers = {}

\* talks were canceled and nothing else changed
C16_Witness ==
    /\ Updated
    /\ report.changes.action = "update"
    /\ report.changes.count > 0
    /\ report.changes.count = Len(report.changes.canceled_talks)
    /\ DOMAIN report.speakers = {}

\* the entries of a list of the change-set that are about a submission of
\* the person, in the order of the list
EntriesFor(list, p) ==
    SelectSeq(list, LAMBDA x : p \in speakers_all(x.submission))

\* C17: for an 'update' change-set with a new or a moved talk, a person is
\* in the notification mapping if and only if they speak on a submission
\* of a new or moved talk; create is exactly the new talks of their
\* submissions and update exactly the move records of their submissions, in
\* append order; canceled talks are in no list.
C17_UpdateNotifiesNewAndMoved ==
    (Updated /\ report.changes.action = "update"
             /\ Len(report.changes.new_talks) + Len(report.changes.moved_talks) > 0) =>
        /\ DOMAIN report.speakers =
               {p \in {"alice", "bob", "carol"} :
                   \/ EntriesFor(report.changes.new_talks, p) # << >>
                   \/ EntriesFor(report.changes.moved_talks, p) # << >>}
        /\ \A p \in DOMAIN report.speakers :
               /\ report.speakers[p].create = EntriesFor(report.changes.new_talks, p)
               /\ report.speakers[p].update = EntriesFor(report.changes.moved_talks, p)
               /\ \A i \in 1 .. Len(report.changes.canceled_talks) :
                      /\ ~InList(report.changes.canceled_talks[i], report.speakers[p].create)
                      /\ ~InList(report.changes.canceled_talks[i], report.speakers[p].update)

\* one submission has a new talk, the other only a canceled one: the
\* speaker of the canceled talk alone is not notified
C17_Witness ==
    /\ Updated
    /\ report.changes.action = "update"
    /\ Len(report.changes.new_talks) > 0
    /\ \E i \in 1 .. Len(report.changes.canceled_talks) :
           report.changes.canceled_talks[i].submission = "sub2"
    /\ DOMAIN report.speakers = {"alice", "bob"}

\* the rows of a set of slots in the order of the collection
InOrder(ts) ==
    [i \in 1 .. Cardinality(ts) |->
        CHOOSE t \in ts : Cardinality({u \in ts : u.id < t.id}) = i - 1]

\* the entries of a list of the change-set for one submission
EntriesOf(list, sub) == SelectSeq(list, LAMBDA x : x.submission = sub)

\* what the matching of moves has to give for A and B: the first
\* |A| - |B| entries of A canceled, or the first |B| - |A| entries of B new,
\* and the rest paired by position
ExpectedCanceled(A, B) ==
    IF Len(A) > Len(B) THEN SubSeq(A, 1, Len(A) - Len(B)) ELSE << >>
ExpectedNew(A, B) ==
    IF Len(B) > Len(A) THEN SubSeq(B, 1, Len(B) - Len(A)) ELSE << >>
ExpectedMoved(A, B) ==
    LET skipA == IF Len(A) > Len(B) THEN Len(A) - Len(B) ELSE 0
        skipB == IF Len(B) > Len(A) THEN Len(B) - Len(A) ELSE 0
    IN [i \in 1 .. (Len(A) - skipA) |->
           [submission |-> B[skipB + i].submission,
            old_start |-> [instant |-> A[skipA + i].start, tz |-> "Europe/Berlin"],
            new_start |-> [instant |-> B[skipB + i].start, tz |-> "Europe/Berlin"],
            old_room |-> RoomName(A[skipA + i].room),
            new_room |-> RoomName(B[skipB + i].room),
            new_info |-> SpeakerInfo(B[skipB + i].room)]]

\* C18: in move-matching for one submission, with A the old and B the new
\* slots without a structural match: if |A| > |B| the first |A| - |B|
\* entries of A are canceled and the rest of A pairs by position with B as
\* moves; if |A| < |B| the first |B| - |A| entries of B are new and the
\* rest of B pairs by position with A; if |A| = |B| all of A pairs with B.
C18_PositionalMatching ==
    Updated =>
        \A sub \in report.changes.move_matched :
            LET A == InOrder(UnmatchedOld(sub))
                B == InOrder(UnmatchedNew(sub))
            IN /\ EntriesOf(report.changes.canceled_talks, sub) = ExpectedCanceled(A, B)
               /\ EntriesOf(report.changes.new_talks, sub) = ExpectedNew(A, B)
               /\ EntriesOf(report.changes.moved_talks, sub) = ExpectedMoved(A, B)

\* two old placements against one new one: the first old one is canceled
\* and the second is the move
C18_Witness ==
    /\ Updated
    /\ \E sub \in report.changes.move_matched :
           /\ Cardinality(UnmatchedOld(sub)) = 2
           /\ Cardinality(UnmatchedNew(sub)) = 1
           /\ Len(EntriesOf(report.changes.canceled_talks, sub)) = 1
           /\ Len(EntriesOf(report.changes.moved_talks, sub)) = 1

\* one old placement against two new ones
C18_WitnessNew ==
    /\ Updated
    /\ \E sub \in report.changes.move_matched :
           /\ Cardinality(UnmatchedOld(sub)) = 1
           /\ Cardinality(UnmatchedNew(sub)) = 2
           /\ Len(EntriesOf(report.changes.new_talks, sub)) = 1

\* two old placements against two new ones
C18_WitnessEqual ==
    /\ Updated
    /\ \E sub \in report.changes.move_matched :
           /\ Cardinality(UnmatchedOld(sub)) = 2
           /\ Cardinality(UnmatchedNew(sub)) = 2
           /\ Len(EntriesOf(report.changes.moved_talks, sub)) = 2

OldSubmissions == {t.submission : t \in OldScheduled}
NewSubmissions == {t.submission : t \in NewScheduled}

\* C19: a submission with scheduled slots in only one of the two versions
\* is never reported as moved: with slots only in the predecessor all its
\* old scheduled slots are in canceled_talks, with slots only in the
\* current schedule all its new scheduled slots are in new_talks.
C19_OneSidedNeverMoved ==
    Updated =>
        /\ \A sub \in OldSubmissions \ NewSubmissions :
               /\ \A t \in OldScheduled :
                      t.submission = sub => InList(t, report.changes.canceled_talks)
               /\ CountOf(report.changes.moved_talks, sub) = 0
        /\ \A sub \in NewSubmissions \ OldSubmissions :
               /\ \A u \in NewScheduled :
                      u.submission = sub => InList(u, report.changes.new_talks)
               /\ CountOf(report.changes.moved_talks, sub) = 0

\* one submission is gone from the schedule while the other one moved
C19_Witness ==
    /\ Updated
    /\ OldSubmissions \ NewSubmissions # {}
    /\ Len(report.changes.canceled_talks) > 0
    /\ Len(report.changes.moved_talks) > 0

\* one submission is new in the schedule while the other one moved
C19_WitnessNew ==
    /\ Updated
    /\ NewSubmissions \ OldSubmissions # {}
    /\ Len(report.changes.new_talks) > 0
    /\ Len(report.changes.moved_talks) > 0

\* the database without the slots that are not scheduled
OnlyScheduled == [db EXCEPT !.slots = {t \in @ : IsScheduled(t)}]

\* C20: the change-set depends only on scheduled slots: a slot with null
\* room, null start, is_visible = false or a DELETED submission, in either
\* version, is in none of the lists, and the change-set is the one of the
\* same schedules without such slots.
C20_OnlyScheduledSlotsCount ==
    Updated =>
        /\ \A i \in 1 .. Len(report.changes.new_talks) :
               IsScheduled(report.changes.new_talks[i])
        /\ \A i \in 1 .. Len(report.changes.canceled_talks) :
               IsScheduled(report.changes.canceled_talks[i])
        /\ \A t \in db.slots :
               (t.schedule \in {report.schedule, Predecessor} /\ ~IsScheduled(t)
                /\ t.room # "None" /\ t.start # 0 - 1
                /\ ~\E u \in OldScheduled \cup NewScheduled : SamePlacement(t, u)) =>
                   ~OldSideOfMove(t) /\ ~NewSideOfMove(t)
        /\ report.changes =
               compare_schedule_with_predecessor(OnlyScheduled, report.schedule,
                                                 report.order1, report.order2)

\* both versions hold a slot that is not scheduled, the later one an
\* invisible one, and the schedule changed
C20_Witness ==
    /\ Updated
    /\ report.changes.count > 0
    /\ \E t \in db.slots : t.schedule = Predecessor /\ ~IsScheduled(t)
    /\ \E t \in db.slots :
           /\ t.schedule = report.schedule
           /\ t.is_visible = FALSE /\ t.room # "None" /\ t.start # 0 - 1

\* a slot of a DELETED submission, and one without a room, are left out
C20_WitnessDeleted ==
    /\ Updated
    /\ \E t \in db.slots :
           /\ t.schedule = report.schedule
           /\ t.is_visible = TRUE /\ t.room # "None" /\ t.start # 0 - 1
           /\ states[t.submission] = "deleted"
    /\ \E t \in db.slots : t.schedule = Predecessor /\ t.room = "None"

\* a visible slot without a start is left out
C20_WitnessNoStart ==
    /\ Updated
    /\ \E t \in db.slots :
           t.schedule = report.schedule /\ t.is_visible = TRUE /\ t.start = 0 - 1

NoDuplicates(list) ==
    \A i, j \in 1 .. Len(list) : list[i] = list[j] => i = j

\* C21: each submission is processed at most once by the diff, also when it
\* has entries in both REMOVED and ADDED: no slot is listed more than once
\* across new_talks, canceled_talks and the old and new sides of
\* moved_talks, and count = len(new_talks) + len(canceled_talks) +
\* len(moved_talks).
C21_ProcessedOnce ==
    Updated =>
        /\ NoDuplicates(report.changes.new_talks)
        /\ NoDuplicates(report.changes.canceled_talks)
        /\ \A i \in 1 .. Len(report.changes.new_talks) :
               ~InList(report.changes.new_talks[i], report.changes.canceled_talks)
        /\ \A sub \in {"sub1", "sub2"} :
               /\ CountOf(report.changes.canceled_talks, sub)
                  + CountOf(report.changes.moved_talks, sub)
                      <= Cardinality({t \in OldScheduled : t.submission = sub})
               /\ CountOf(report.changes.new_talks, sub)
                  + CountOf(report.changes.moved_talks, sub)
                      <= Cardinality({u \in NewScheduled : u.submission = sub})
        /\ report.changes.count =
               Len(report.changes.new_talks) + Len(report.changes.canceled_talks)
               + Len(report.changes.moved_talks)

\* a submission has a placement that is only in the predecessor and one
\* that is only in the current schedule, so it has entries in both sets
C21_Witness ==
    /\ Updated
    /\ \E sub \in report.changes.move_matched :
           /\ UnmatchedOld(sub) # {}
           /\ UnmatchedNew(sub) # {}
    /\ report.changes.count > 0

\* C26: the change-set never has both a new talk and a canceled talk of
\* the same submission, and every move record pairs an old and a new slot
\* of the same submission that differ in room or in start.
C26_NoNewAndCanceledTogether ==
    Updated =>
        /\ \A sub \in {"sub1", "sub2"} :
               ~(/\ CountOf(report.changes.new_talks, sub) > 0
                 /\ CountOf(report.changes.canceled_talks, sub) > 0)
        /\ \A i \in 1 .. Len(report.changes.moved_talks) :
               LET m == report.changes.moved_talks[i]
               IN /\ \/ m.old_room # m.new_room
                     \/ m.old_start # m.new_start
                  /\ \E t \in OldScheduled, u \in NewScheduled :
                         /\ t.submission = m.submission
                         /\ u.submission = m.submission
                         /\ m.old_room = RoomName(t.room) /\ m.old_start.instant = t.start
                         /\ m.new_room = RoomName(u.room) /\ m.new_start.instant = u.start
                         /\ (t.room # u.room \/ t.start # u.start)

\* a submission with two old placements and one new one, none in common:
\* one is canceled and one moved, and none of its talks is new
C26_Witness ==
    /\ Updated
    /\ \E sub \in report.changes.move_matched :
           /\ Cardinality(UnmatchedOld(sub)) = 2
           /\ Cardinality(UnmatchedNew(sub)) = 1
           /\ CountOf(report.changes.canceled_talks, sub) = 1
           /\ CountOf(report.changes.new_talks, sub) = 0
           /\ CountOf(report.changes.moved_talks, sub) = 1
    /\ Len(report.changes.new_talks) > 0

\* the (submission, room, start) triples of the scheduled slots
OldTriples == {<<t.submission, t.room, t.start>> : t \in OldScheduled}
NewTriples == {<<t.submission, t.room, t.start>> : t \in NewScheduled}

\* C27: for a schedule with a predecessor, count is 0 if and only if the
\* (submission, room, start) triples of the scheduled slots of the
\* predecessor are those of the current schedule; any structural
\* difference gives at least one new, canceled or moved entry.
C27_CountZeroIffSameTriples ==
    Updated =>
        /\ (report.changes.count = 0) <=> (OldTriples = NewTriples)
        /\ OldTriples # NewTriples =>
               Len(report.changes.new_talks) + Len(report.changes.canceled_talks)
               + Len(report.changes.moved_talks) >= 1

\* the two versions have the same triples with a different number of
\* slots, and nothing is reported
C27_Witness ==
    /\ Updated
    /\ OldTriples = NewTriples
    /\ OldTriples # {}
    /\ Cardinality(OldScheduled) # Cardinality(NewScheduled)
    /\ report.changes.count = 0

\* the versions differ by a canceled talk only
C27_WitnessDiffer ==
    /\ Updated
    /\ OldTriples # NewTriples
    /\ report.changes.count = Len(report.changes.canceled_talks)
    /\ report.changes.count > 0

\* ------------------------------------- side effects of freeze (Spec)
\* the persons to notify about the schedule of the last operation
PersonsToNotify ==
    DOMAIN speakers_with_changed_slots(db, last.schedule,
                                       <<"sub1", "sub2">>, <<"sub1", "sub2">>)

\* C22: a freeze with notify = false enqueues no message; a freeze with
\* notify = true enqueues exactly one message per person in the
\* notification mapping built from the comparison of the frozen schedule
\* with its predecessor, computed after the visibility update and the slot
\* copy.
C22_FreezeNotifies ==
    last.op = "freeze" =>
        /\ (last.raised = "ok" /\ ~last.notify) => db.mails = pre.mails
        /\ last.notify =>
               /\ last.raised = "ok"
               /\ db.mails = pre.mails \cup
                      {[user |-> p, schedule |-> last.schedule] : p \in PersonsToNotify}

\* C23: the export signal of freeze is sent only when the event exports on
\* release and only after the freeze has committed, and a failure of the
\* export signal does not roll back the freeze: the schedule stays
\* versioned and the new working draft with its copied slots persists.
C23_ExportFailureKeepsFreeze ==
    (last.op = "freeze" /\ last.raised = "OperationalError") =>
        /\ last.schedule \in DOMAIN db.schedules
        /\ db.schedules[last.schedule].version = last.name
        /\ db.schedules[last.schedule].published # 0 - 1
        /\ \E w \in DOMAIN db.schedules \ DOMAIN pre.schedules :
               /\ db.schedules[w].version = "None"
               /\ Cardinality({t \in db.slots : t.schedule = w})
                      = Cardinality({t \in db.slots : t.schedule = last.schedule})

\* ------------------------------------------- properties of SpecHistory
Returned(op) == last.op = op /\ last.raised = "ok"

\* C24: when freeze or unfreeze returns, the working-draft reference of the
\* event resolves to the newly created working draft, never to the frozen
\* schedule or the deleted draft, and after freeze the current-schedule
\* reference resolves to the schedule just frozen.
C24_NoStaleReference ==
    /\ Returned("freeze") =>
           /\ last.wip \notin DOMAIN pre.schedules
           /\ last.wip \in DOMAIN db.schedules
           /\ db.schedules[last.wip].version = "None"
           /\ wip_schedule(db, wip_cache, "e1").value = last.wip
           /\ current_schedule(db, current_cache, "e1").value = last.schedule
    /\ Returned("unfreeze") =>
           /\ last.wip \notin DOMAIN pre.schedules
           /\ last.wip \in DOMAIN db.schedules
           /\ db.schedules[last.wip].version = "None"
           /\ wip_schedule(db, wip_cache, "e1").value = last.wip

\* before the freeze the event had cached the draft that was frozen, and an
\* earlier release as its current schedule
C24_Witness ==
    /\ Returned("freeze")
    /\ held.wip = last.schedule
    /\ held.current \in DOMAIN db.schedules
    /\ held.current # last.schedule

\* before the unfreeze the event had cached the draft that was deleted
C24_WitnessUnfreeze ==
    /\ Returned("unfreeze")
    /\ held.wip # 0 - 1
    /\ held.wip \notin DOMAIN db.schedules

\* the schedule that was the current one before the last operation
CurrentBefore ==
    LET released == {o \in DOMAIN pre.schedules :
                        /\ pre.schedules[o].event = "e1"
                        /\ pre.schedules[o].published # 0 - 1}
    IN IF released = {} THEN 0 - 1
       ELSE CHOOSE o \in released :
                \A x \in released : pre.schedules[x].published <= pre.schedules[o].published

\* C25: in any sequence of freezes and unfreezes, the predecessor of a
\* freshly frozen schedule is the schedule that was the current one
\* (latest published) right before that freeze, also when the frozen draft
\* came from unfreezing an older version; the working draft is never the
\* predecessor of a published schedule.
C25_PredecessorIsCurrentBefore ==
    Returned("freeze") =>
        /\ previous_schedule(db, last.schedule) = CurrentBefore
        /\ \A o \in DOMAIN db.schedules :
               db.schedules[o].published # 0 - 1 =>
                   \/ previous_schedule(db, o) = 0 - 1
                   \/ db.schedules[previous_schedule(db, o)].version # "None"

\* two releases, a reset to the older one, and the release of the draft
\* that the reset made: its predecessor is the newer of the two
C25_Witness ==
    /\ Returned("freeze")
    /\ held.draft = last.schedule
    /\ held.version \in DOMAIN db.schedules
    /\ CurrentBefore \in DOMAIN db.schedules
    /\ held.version # CurrentBefore
    /\ previous_schedule(db, last.schedule) = CurrentBefore

====
